---- MODULE Spec2Model ----
(***************************************************************************)
(* The voice assistant's POST handler: schema validation, transcription,   *)
(* chat completion, speech synthesis and the response it builds.            *)
(*                                                                         *)
(* A JavaScript string is a sequence of UTF-16 code units (naturals).      *)
(* One request is followed from its arrival to the value POST returns or   *)
(* throws; every `await` on a collaborator is a step whose outcome is an   *)
(* input of the model.  The repository holds two versions of the handler   *)
(* (src/app/api/route.ts and src/unnamed/part_000); `variant` says which   *)
(* one serves the request.                                                 *)
(***************************************************************************)
EXTENDS Integers, Sequences, FiniteSets, TLC

\* ------------------------------------------------------------------ bounds
MaxHistory == 2
MaxChunks == 2

\* --------------------------------------------------------- string helpers
\* WhiteSpace and LineTerminator code units removed by String.prototype.trim
IsWhiteSpace(c) ==
    c \in {9, 10, 11, 12, 13, 32, 160, 5760, 8232, 8233, 8239, 8287, 12288, 65279}
    \/ c \in 8192..8202

RECURSIVE trimStart(_)
trimStart(s) ==
    IF s = <<>> THEN <<>>
    ELSE IF IsWhiteSpace(Head(s)) THEN trimStart(Tail(s))
    ELSE s

RECURSIVE trimEnd(_)
trimEnd(s) ==
    IF s = <<>> THEN <<>>
    ELSE IF IsWhiteSpace(s[Len(s)]) THEN trimEnd(SubSeq(s, 1, Len(s) - 1))
    ELSE s

\* text.trim()
trim(s) == trimEnd(trimStart(s))

\* ------------------------------------------------------ encodeURIComponent
\* A-Z a-z 0-9 - _ . ! ~ * ' ( )
IsUnreserved(c) ==
    \/ c \in 65..90
    \/ c \in 97..122
    \/ c \in 48..57
    \/ c \in {45, 95, 46, 33, 126, 42, 39, 40, 41}

IsHighSurrogate(c) == c \in 55296..56319
IsLowSurrogate(c) == c \in 56320..57343

HexDigit(n) == IF n < 10 THEN 48 + n ELSE 55 + n

\* "%XX" with upper-case hexadecimal digits
PercentByte(b) == <<37, HexDigit(b \div 16), HexDigit(b % 16)>>

\* the UTF-8 octets of a code point
Utf8(cp) ==
    IF cp < 128 THEN <<cp>>
    ELSE IF cp < 2048 THEN <<192 + (cp \div 64), 128 + (cp % 64)>>
    ELSE IF cp < 65536
      THEN <<224 + (cp \div 4096), 128 + ((cp \div 64) % 64), 128 + (cp % 64)>>
    ELSE <<240 + (cp \div 262144), 128 + ((cp \div 4096) % 64),
           128 + ((cp \div 64) % 64), 128 + (cp % 64)>>

RECURSIVE PercentAll(_)
PercentAll(bytes) ==
    IF bytes = <<>> THEN <<>>
    ELSE PercentByte(Head(bytes)) \o PercentAll(Tail(bytes))

URIError == [ok |-> FALSE, val |-> <<>>]

RECURSIVE EncodeFrom(_, _)
EncodeFrom(s, i) ==
    IF i > Len(s) THEN [ok |-> TRUE, val |-> <<>>]
    ELSE IF IsUnreserved(s[i]) THEN
        LET r == EncodeFrom(s, i + 1)
        IN  IF r.ok THEN [ok |-> TRUE, val |-> <<s[i]>> \o r.val] ELSE URIError
    ELSE IF IsLowSurrogate(s[i]) THEN URIError
    ELSE IF IsHighSurrogate(s[i]) THEN
        IF i + 1 > Len(s) THEN URIError
        ELSE IF ~IsLowSurrogate(s[i + 1]) THEN URIError
        ELSE LET cp == (s[i] - 55296) * 1024 + (s[i + 1] - 56320) + 65536
                 r == EncodeFrom(s, i + 2)
             IN  IF r.ok THEN [ok |-> TRUE, val |-> PercentAll(Utf8(cp)) \o r.val]
                 ELSE URIError
    ELSE LET r == EncodeFrom(s, i + 1)
         IN  IF r.ok THEN [ok |-> TRUE, val |-> PercentAll(Utf8(s[i])) \o r.val]
             ELSE URIError

\* every code unit is kept as it is: the percent sign and the other reserved
\* characters are not escaped
encodeURIComponent_raw(s) == [ok |-> TRUE, val |-> s]

\* encodeURIComponent(s): the encoded string, or a URIError for a lone surrogate
encodeURIComponent(s) == EncodeFrom(s, 1)

\* ------------------------------------------------------ decodeURIComponent
HexVal(c) ==
    IF c \in 48..57 THEN c - 48
    ELSE IF c \in 65..70 THEN c - 55
    ELSE IF c \in 97..102 THEN c - 87
    ELSE -1

\* is there a well-formed "%XX" at position i of h
HasEscape(h, i) ==
    /\ i + 2 <= Len(h)
    /\ h[i] = 37
    /\ HexVal(h[i + 1]) >= 0
    /\ HexVal(h[i + 2]) >= 0

EscapeVal(h, i) == HexVal(h[i + 1]) * 16 + HexVal(h[i + 2])

\* number of octets of the UTF-8 sequence a leading octet starts (0: none)
Utf8Len(b) ==
    IF b < 128 THEN 1
    ELSE IF b \in 192..223 THEN 2
    ELSE IF b \in 224..239 THEN 3
    ELSE IF b \in 240..247 THEN 4
    ELSE 0

IsContinuation(h, i) ==
    HasEscape(h, i) /\ EscapeVal(h, i) \in 128..191

\* the code units of a code point
Utf16(cp) ==
    IF cp < 65536 THEN <<cp>>
    ELSE <<55296 + ((cp - 65536) \div 1024), 56320 + ((cp - 65536) % 1024)>>

RECURSIVE DecodeFrom(_, _)
DecodeFrom(h, i) ==
    IF i > Len(h) THEN [ok |-> TRUE, val |-> <<>>]
    ELSE IF h[i] # 37 THEN
        LET r == DecodeFrom(h, i + 1)
        IN  IF r.ok THEN [ok |-> TRUE, val |-> <<h[i]>> \o r.val] ELSE URIError
    ELSE IF ~HasEscape(h, i) THEN URIError
    ELSE LET b == EscapeVal(h, i)
             n == Utf8Len(b)
         IN  IF n = 0 THEN URIError
             ELSE IF \E k \in 1..(n - 1) : ~IsContinuation(h, i + 3 * k) THEN URIError
             ELSE LET c(k) == EscapeVal(h, i + 3 * k) - 128
                      cp == IF n = 1 THEN b
                            ELSE IF n = 2 THEN (b - 192) * 64 + c(1)
                            ELSE IF n = 3 THEN (b - 224) * 4096 + c(1) * 64 + c(2)
                            ELSE (b - 240) * 262144 + c(1) * 4096 + c(2) * 64 + c(3)
                      r == DecodeFrom(h, i + 3 * n)
                  IN  IF r.ok THEN [ok |-> TRUE, val |-> Utf16(cp) \o r.val]
                      ELSE URIError

\* decodeURIComponent(h), what the caller applies to the X- headers
decodeURIComponent(h) == DecodeFrom(h, 1)

\* ------------------------------------------------------------ input pools
\* form values of the `input` field: "", " a ", "a&%", a lone high surrogate
FormTexts == {<<>>, <<32, 97, 32>>, <<97, 38, 37>>, <<55357>>}

\* texts the transcription collaborator returns: "", " \t", " hi\n", e-acute euro
SttTexts == {<<>>, <<32, 9>>, <<32, 104, 105, 10>>, <<233, 8364>>}

\* contents of the first choice of a completion:
\* "", "a .", " a ", "%41", a surrogate pair, a lone low surrogate
Replies ==
    {<<>>, <<97, 32, 46>>, <<32, 97, 32>>, <<37, 52, 49>>, <<55357, 56832>>, <<56832>>}

\* chunks the synthesis stream delivers
ChunkPool == {<<82, 73>>, <<70>>}

\* `input` of the form data: absent, given twice, a text value, or a file
FormInputs ==
    {[kind |-> k, value |-> <<>>, size |-> 0] : k \in {"missing", "repeated"}}
    \cup {[kind |-> "text", value |-> v, size |-> 0] : v \in FormTexts}
    \cup {[kind |-> "file", value |-> <<>>, size |-> n] : n \in 0..1}

\* one `message` value of the form data: whether it parses as a JSON object,
\* its role ("absent" when the key is missing), its content (hasContent is
\* FALSE when the key is missing or is no string), and whether it carries a
\* key the schema does not name
FormMessages ==
    { [json |-> TRUE, role |-> "user", hasContent |-> TRUE, content |-> <<104, 105>>, extra |-> TRUE],
      [json |-> TRUE, role |-> "assistant", hasContent |-> TRUE, content |-> <<121, 111>>, extra |-> FALSE],
      [json |-> TRUE, role |-> "system", hasContent |-> TRUE, content |-> <<104, 105>>, extra |-> FALSE],
      [json |-> TRUE, role |-> "absent", hasContent |-> TRUE, content |-> <<104, 105>>, extra |-> FALSE],
      [json |-> TRUE, role |-> "user", hasContent |-> FALSE, content |-> <<>>, extra |-> FALSE],
      [json |-> FALSE, role |-> "absent", hasContent |-> FALSE, content |-> <<>>, extra |-> FALSE] }

SeqsUpTo(S, n) == UNION {[1..k -> S] : k \in 0..n}

\* what getStream() can resolve to: a stream of chunks whose read number
\* errAt + 1 rejects (errAt = -1: no read rejects)
Streams ==
    {s \in [kind : {"stream"}, data : SeqsUpTo(ChunkPool, MaxChunks), errAt : -1..MaxChunks] :
        s.errAt <= Len(s.data)}

NoStream == [kind |-> "none", data |-> <<>>, errAt |-> -1]
NullStream == [kind |-> "null", data |-> <<>>, errAt |-> -1]
RejectedStream == [kind |-> "rejects", data |-> <<>>, errAt |-> -1]

\* --------------------------------------------------------------- the state
VARIABLES
    variant,      \* which version of the handler serves the request
    form,         \* the form data of the request: [input, message]
    pc,           \* the await POST is suspended at, or "start" / "done"
    data,         \* result of schema.safeParse
    transcript,   \* const transcript
    response,     \* const response
    calls,        \* the collaborator invocations of this request, in order
    stt,          \* outcome of groq.audio.transcriptions.create
    completion,   \* outcome of groq.chat.completions.create
    tts,          \* outcome of deepgram.speak.request
    stream,       \* outcome of ttsResponse.getStream()
    pos,          \* number of reads of the reader that delivered a chunk
    chunks,       \* const chunks of getAudioBuffer
    result        \* what POST returned or threw

vars == <<variant, form, pc, data, transcript, response, calls, stt, completion,
          tts, stream, pos, chunks, result>>

Null == [null |-> TRUE, text |-> <<>>]
Text(s) == [null |-> FALSE, text |-> s]
Pending == [kind |-> "none", text |-> <<>>]

NoData == [success |-> FALSE, input |-> [kind |-> "missing", value |-> <<>>, size |-> 0],
           message |-> <<>>]

NoResult == [kind |-> "none"]
Thrown == [kind |-> "thrown"]

\* new Response(body, { status })
TextResponse(status, body) ==
    [kind |-> "response", status |-> status,
     body |-> [type |-> "text", text |-> body, bytes |-> <<>>],
     headers |-> [ContentType |-> "text/plain;charset=UTF-8"]]

\* new Response(audioBuffer, { headers })
AudioResponse(bytes, xTranscript, xResponse) ==
    [kind |-> "response", status |-> 200,
     body |-> [type |-> "bytes", text |-> "", bytes |-> bytes],
     headers |-> [ContentType |-> "audio/wav", XTranscript |-> xTranscript,
                  XResponse |-> xResponse]]

\* ------------------------------------------------------------ validation
\* zfd.text() and zfd.file() turn an empty string and an empty file into
\* undefined before z.string() / z.instanceof(File) see them; a field given
\* more than once reaches the union as an array
InputOk(input) ==
    \/ input.kind = "text" /\ input.value # <<>>
    \/ input.kind = "file" /\ input.size > 0

\* the enum also admits the role "system"
MessageOk_anyRole(m) == m.json /\ m.role # "absent" /\ m.hasContent

\* zfd.json(z.object({ role: z.enum(["user", "assistant"]), content: z.string() }))
MessageOk(m) == m.json /\ m.role \in {"user", "assistant"} /\ m.hasContent

\* schema.safeParse(formData).success
SchemaOk(f) ==
    /\ InputOk(f.input)
    /\ \A i \in 1..Len(f.message) : MessageOk(f.message[i])

\* schema.safeParse(formData).data: z.object keeps the keys it names
ParsedMessages(ms) ==
    [i \in 1..Len(ms) |-> [role |-> ms[i].role, content |-> ms[i].content]]

\* ----------------------------------------------------------- getTranscript
\* the string branch trims as the audio branch does
getTranscriptText_trimmed(input) == Text(trim(input))

\* if (typeof input === "string") return input;
getTranscriptText(input) == Text(input)

\* the text is returned as the collaborator gave it
getTranscriptAudio_untrimmed(outcome) ==
    IF outcome.kind = "throws" THEN Null
    ELSE Text(outcome.text)

\* try { const { text } = await ...; return text.trim() || null } catch { return null }
getTranscriptAudio(outcome) ==
    IF outcome.kind = "throws" THEN Null
    ELSE IF trim(outcome.text) = <<>> THEN Null
    ELSE Text(trim(outcome.text))

\* !transcript
Falsy(t) == t.null \/ t.text = <<>>

\* --------------------------------------------------------- chat completion
SystemMessage == [role |-> "system", content |-> <<>>]

\* the history is left out of the prompt
ChatMessages_noHistory(history, t) ==
    <<SystemMessage>> \o <<[role |-> "user", content |-> t]>>

\* messages: [ { role: "system", ... }, ...data.message, { role: "user", content: transcript } ]
ChatMessages(history, t) ==
    <<SystemMessage>> \o history \o <<[role |-> "user", content |-> t]>>

\* the reply is trimmed before it is spoken
SpeakBody_trimmed(r) == [text |-> trim(r)]

\* deepgram.speak.request({ text: response }, ...)
SpeakBody(r) == [text |-> r]

\* ------------------------------------------------------------ getAudioBuffer
\* each chunk is put in front of the bytes gathered so far
Reduce_prepend(cs) ==
    LET F[i \in 0..Len(cs)] == IF i = 0 THEN <<>> ELSE cs[i] \o F[i - 1]
    IN  F[Len(cs)]

\* chunks.reduce((acc, chunk) => Uint8Array.from([...acc, ...chunk]), new Uint8Array(0))
Reduce(cs) ==
    LET F[i \in 0..Len(cs)] == IF i = 0 THEN <<>> ELSE F[i - 1] \o cs[i]
    IN  F[Len(cs)]

\* --------------------------------------------------------------- POST
\* the failure is caught and answered as a synthesis failure
CompletionFailure_caught == TextResponse(500, "Voice synthesis failed")

\* the await of groq.chat.completions.create and completion.choices[0] stand
\* outside every try block: a rejection or a missing choice leaves POST as an
\* exception
CompletionFailure == Thrown

\* the catch clause throws the error on
catchTts_rethrow == Thrown

\* catch (error) { ...; return new Response("Voice synthesis failed", { status: 500 }) }
catchTts == TextResponse(500, "Voice synthesis failed")

\* route.ts answers a null stream itself; in part_000 getAudioBuffer(null)
\* throws a TypeError at stream.getReader() inside the try block
NullStreamResponse(v) ==
    IF v = "route.ts" THEN TextResponse(500, "No audio stream") ELSE catchTts

\* the transcript is not tested
TranscriptMissing_never(t) == FALSE

\* if (!transcript) return new Response("Invalid audio", { status: 400 })
TranscriptMissing(t) == Falsy(t)

\* POST from the transcript on, up to the await of the completion
AfterTranscript(t, history) ==
    /\ transcript' = t
    /\ IF TranscriptMissing(t)
       THEN /\ result' = TextResponse(400, "Invalid audio")
            /\ pc' = "done"
            /\ calls' = calls
       ELSE /\ calls' = Append(calls, [svc |-> "chat",
                                       messages |-> ChatMessages(history, t.text)])
            /\ pc' = "completion"
            /\ result' = result

Init ==
    /\ variant \in {"route.ts", "part_000"}
    /\ form \in [input : FormInputs, message : SeqsUpTo(FormMessages, MaxHistory)]
    /\ pc = "start"
    /\ data = NoData
    /\ transcript = Null
    /\ response = Null
    /\ calls = <<>>
    /\ stt = Pending
    /\ completion = Pending
    /\ tts = "none"
    /\ stream = NoStream
    /\ pos = 0
    /\ chunks = <<>>
    /\ result = NoResult

\* if (!success) return new Response("Invalid request", { status: 400 })
POST_InvalidRequest ==
    /\ pc = "start"
    /\ ~SchemaOk(form)
    /\ result' = TextResponse(400, "Invalid request")
    /\ pc' = "done"
    /\ UNCHANGED <<variant, form, data, transcript, response, calls, stt,
                   completion, tts, stream, pos, chunks>>

\* a valid request with a text input: getTranscript returns at once and POST
\* runs on to the await of the completion
POST_TextInput ==
    /\ pc = "start"
    /\ SchemaOk(form)
    /\ form.input.kind = "text"
    /\ data' = [success |-> TRUE, input |-> form.input,
                message |-> ParsedMessages(form.message)]
    /\ AfterTranscript(getTranscriptText(form.input.value), ParsedMessages(form.message))
    /\ UNCHANGED <<variant, form, response, stt, completion, tts, stream, pos, chunks>>

\* a valid request with a file input: getTranscript awaits the transcription
POST_AudioInput ==
    /\ pc = "start"
    /\ SchemaOk(form)
    /\ form.input.kind = "file"
    /\ data' = [success |-> TRUE, input |-> form.input,
                message |-> ParsedMessages(form.message)]
    /\ calls' = Append(calls, [svc |-> "transcription", file |-> form.input])
    /\ pc' = "transcription"
    /\ UNCHANGED <<variant, form, transcript, response, stt, completion, tts,
                   stream, pos, chunks, result>>

\* groq.audio.transcriptions.create resolves with a text
TranscriptionResolves ==
    /\ pc = "transcription"
    /\ \E t \in SttTexts :
         /\ stt' = [kind |-> "text", text |-> t]
         /\ AfterTranscript(getTranscriptAudio(stt'), data.message)
    /\ UNCHANGED <<variant, form, data, response, completion, tts, stream, pos, chunks>>

\* groq.audio.transcriptions.create rejects
TranscriptionRejects ==
    /\ pc = "transcription"
    /\ stt' = [kind |-> "throws", text |-> <<>>]
    /\ AfterTranscript(getTranscriptAudio(stt'), data.message)
    /\ UNCHANGED <<variant, form, data, response, completion, tts, stream, pos, chunks>>

\* the completion resolves; POST takes the content of its first choice and
\* runs on to the await of deepgram.speak.request
CompletionResolves ==
    /\ pc = "completion"
    /\ \E r \in Replies :
         /\ completion' = [kind |-> "reply", text |-> r]
         /\ response' = Text(r)
         /\ calls' = Append(calls, [svc |-> "speak", body |-> SpeakBody(r)])
    /\ pc' = "speak"
    /\ UNCHANGED <<variant, form, data, transcript, stt, tts, stream, pos, chunks, result>>

\* the completion rejects, or resolves without a first choice
CompletionFails ==
    /\ pc = "completion"
    /\ \E k \in {"rejects", "noChoices"} : completion' = [kind |-> k, text |-> <<>>]
    /\ result' = CompletionFailure
    /\ pc' = "done"
    /\ UNCHANGED <<variant, form, data, transcript, response, calls, stt, tts,
                   stream, pos, chunks>>

\* deepgram.speak.request resolves; POST awaits ttsResponse.getStream()
SpeakResolves ==
    /\ pc = "speak"
    /\ tts' = "resolves"
    /\ pc' = "getStream"
    /\ UNCHANGED <<variant, form, data, transcript, response, calls, stt,
                   completion, stream, pos, chunks, result>>

\* deepgram.speak.request rejects
SpeakRejects ==
    /\ pc = "speak"
    /\ tts' = "rejects"
    /\ result' = catchTts
    /\ pc' = "done"
    /\ UNCHANGED <<variant, form, data, transcript, response, calls, stt,
                   completion, stream, pos, chunks>>

\* getStream() resolves with a stream; getAudioBuffer takes its reader and
\* awaits the first read
GetStreamResolves ==
    /\ pc = "getStream"
    /\ stream' \in Streams
    /\ chunks' = <<>>
    /\ pos' = 0
    /\ pc' = "read"
    /\ UNCHANGED <<variant, form, data, transcript, response, calls, stt,
                   completion, tts, result>>

\* getStream() resolves with null
GetStreamNull ==
    /\ pc = "getStream"
    /\ stream' = NullStream
    /\ result' = NullStreamResponse(variant)
    /\ pc' = "done"
    /\ UNCHANGED <<variant, form, data, transcript, response, calls, stt,
                   completion, tts, pos, chunks>>

\* getStream() throws
GetStreamRejects ==
    /\ pc = "getStream"
    /\ stream' = RejectedStream
    /\ result' = catchTts
    /\ pc' = "done"
    /\ UNCHANGED <<variant, form, data, transcript, response, calls, stt,
                   completion, tts, pos, chunks>>

\* reader.read() resolves with a chunk: chunks.push(value)
ReadChunk ==
    /\ pc = "read"
    /\ stream.errAt # pos
    /\ pos < Len(stream.data)
    /\ chunks' = Append(chunks, stream.data[pos + 1])
    /\ pos' = pos + 1
    /\ UNCHANGED <<variant, form, pc, data, transcript, response, calls, stt,
                   completion, tts, stream, result>>

\* reader.read() rejects: getAudioBuffer throws into the catch clause of POST
ReadRejects ==
    /\ pc = "read"
    /\ stream.errAt = pos
    /\ result' = catchTts
    /\ pc' = "done"
    /\ UNCHANGED <<variant, form, data, transcript, response, calls, stt,
                   completion, tts, stream, pos, chunks>>

\* reader.read() resolves with done: getAudioBuffer returns the buffer and
\* POST builds the response; a URIError of encodeURIComponent is caught
ReadDone ==
    /\ pc = "read"
    /\ stream.errAt # pos
    /\ pos = Len(stream.data)
    /\ LET audioBuffer == Reduce(chunks)
           xTranscript == encodeURIComponent(transcript.text)
           xResponse == encodeURIComponent(response.text)
       IN  result' = IF xTranscript.ok /\ xResponse.ok
                     THEN AudioResponse(audioBuffer, xTranscript.val, xResponse.val)
                     ELSE catchTts
    /\ pc' = "done"
    /\ UNCHANGED <<variant, form, data, transcript, response, calls, stt,
                   completion, tts, stream, pos, chunks>>

Next ==
    \/ POST_InvalidRequest
    \/ POST_TextInput
    \/ POST_AudioInput
    \/ TranscriptionResolves
    \/ TranscriptionRejects
    \/ CompletionResolves
    \/ CompletionFails
    \/ SpeakResolves
    \/ SpeakRejects
    \/ GetStreamResolves
    \/ GetStreamNull
    \/ GetStreamRejects
    \/ ReadChunk
    \/ ReadRejects
    \/ ReadDone

Spec == Init /\ [][Next]_vars

\* ================================================================ claims
CallsTo(svc) == {i \in 1..Len(calls) : calls[i].svc = svc}

IsTextResponse(status, body) ==
    /\ result.kind = "response"
    /\ result.status = status
    /\ result.body.type = "text"
    /\ result.body.text = body

Success ==
    /\ result.kind = "response"
    /\ result.body.type = "bytes"

AllWhiteSpace(s) == \A i \in 1..Len(s) : IsWhiteSpace(s[i])

RECURSIVE Flatten(_)
Flatten(ss) == IF ss = <<>> THEN <<>> ELSE Head(ss) \o Flatten(Tail(ss))

\* the payloads the schema is said to refuse
RefusedPayload ==
    \/ form.input.kind \notin {"text", "file"}
    \/ \E i \in 1..Len(form.message) :
         \/ form.message[i].role = "absent"
         \/ ~form.message[i].hasContent
         \/ form.message[i].role \notin {"user", "assistant"}

\* C1: once POST has handled a request whose input is missing or neither text
\* nor file, or one of whose messages lacks role or content or has a role
\* outside {user, assistant}, the result is the response 400 "Invalid request"
\* and no collaborator has been invoked.
C1_InvalidRequest ==
    (pc # "start" /\ RefusedPayload) =>
        /\ IsTextResponse(400, "Invalid request")
        /\ calls = <<>>

\* a request with a good text input and a message of role system was refused
C1_Witness ==
    /\ pc = "done"
    /\ form.input.kind = "text"
    /\ form.input.value # <<>>
    /\ \E i \in 1..Len(form.message) :
         form.message[i].json /\ form.message[i].hasContent /\ form.message[i].role = "system"
    /\ IsTextResponse(400, "Invalid request")

\* C2: when the transcription of an audio input has thrown or has returned a
\* text that is empty after trimming, the transcript is null, POST has returned
\* 400 "Invalid audio", and neither the completion nor the synthesis has been
\* invoked.
C2_InvalidAudio ==
    (form.input.kind = "file" /\ stt.kind # "none"
        /\ (stt.kind = "throws" \/ AllWhiteSpace(stt.text))) =>
        /\ transcript.null
        /\ IsTextResponse(400, "Invalid audio")
        /\ CallsTo("chat") = {}
        /\ CallsTo("speak") = {}

\* the transcription returned a non-empty text of white space only
C2_Witness ==
    /\ stt.kind = "text"
    /\ stt.text # <<>>
    /\ AllWhiteSpace(stt.text)
    /\ IsTextResponse(400, "Invalid audio")

\* the synthesis collaborator failed: the request rejected, no stream was
\* returned, or a read of the stream rejected
SynthesisFailed ==
    \/ tts = "rejects"
    \/ stream.kind \in {"null", "rejects"}
    \/ stream.kind = "stream" /\ pc = "done" /\ stream.errAt = pos

C4_ReplySpoken ==
    completion.kind = "reply" =>
        /\ Cardinality(CallsTo("speak")) = 1
        /\ \A i \in CallsTo("speak") : calls[i].body.text = completion.text
        /\ Success =>
             /\ encodeURIComponent(completion.text).ok
             /\ result.headers.XResponse = encodeURIComponent(completion.text).val

\* a reply with white space at both ends was spoken and answered
C4_Witness ==
    /\ completion.kind = "reply"
    /\ completion.text # trim(completion.text)
    /\ Success

\* C5: for a valid payload whose input is text, the transcript is that text
\* unchanged, it is the content of the user message sent to the completion, and
\* the transcription is never invoked.
C5_TextPassThrough ==
    (data.success /\ form.input.kind = "text") =>
        /\ transcript = [null |-> FALSE, text |-> form.input.value]
        /\ CallsTo("transcription") = {}
        /\ stt.kind = "none"
        /\ \A i \in CallsTo("chat") :
             calls[i].messages[Len(calls[i].messages)].content = form.input.value
        /\ Success => decodeURIComponent(result.headers.XTranscript).val = form.input.value

\* a text input with white space at both ends went through the whole turn
C5_Witness ==
    /\ data.success
    /\ form.input.kind = "text"
    /\ form.input.value # trim(form.input.value)
    /\ Success

\* C6: for a validated request with a non-null transcript, the completion is
\* invoked once with: a system message, then the history in its order, each
\* message with its role and content, then a user message whose content is the
\* transcript; history length plus 2 messages.
C6_Prompt ==
    (data.success /\ ~transcript.null) =>
        /\ Cardinality(CallsTo("chat")) = 1
        /\ \A c \in CallsTo("chat") :
             LET ms == calls[c].messages
                 n == Len(form.message)
             IN  /\ Len(ms) = n + 2
                 /\ ms[1].role = "system"
                 /\ \A i \in 1..n :
                      /\ ms[i + 1].role = form.message[i].role
                      /\ ms[i + 1].content = form.message[i].content
                 /\ ms[n + 2] = [role |-> "user", content |-> transcript.text]

\* a prompt was sent for a history of a user and an assistant message
C6_Witness ==
    /\ Len(form.message) = 2
    /\ form.message[1].role # form.message[2].role
    /\ CallsTo("chat") # {}

\* C7: in every successful response, X-Transcript decodes to the transcript,
\* X-Response decodes to the reply, and Content-Type is audio/wav.
C7_HeaderRoundTrip ==
    Success =>
        /\ result.headers.ContentType = "audio/wav"
        /\ decodeURIComponent(result.headers.XTranscript) = [ok |-> TRUE, val |-> transcript.text]
        /\ decodeURIComponent(result.headers.XResponse) = [ok |-> TRUE, val |-> completion.text]

\* a success whose transcript is "a&%" and whose reply is "%41"
C7_Witness ==
    /\ Success
    /\ transcript.text = <<97, 38, 37>>
    /\ completion.text = <<37, 52, 49>>

Rank(svc) == CASE svc = "transcription" -> 1 [] svc = "chat" -> 2 [] svc = "speak" -> 3

Failed ==
    /\ pc = "done"
    /\ ~Success

\* C8: the invocations of a request are in the order transcription, chat,
\* speak, each at most once; a collaborator is invoked only when the step
\* before it has succeeded; a failed step ends the request without a success
\* and without any later invocation.
C8_Linear ==
    /\ \A i, j \in 1..Len(calls) : i < j => Rank(calls[i].svc) < Rank(calls[j].svc)
    /\ CallsTo("transcription") # {} => data.success
    /\ CallsTo("chat") # {} =>
         /\ data.success
         /\ ~transcript.null
         /\ form.input.kind = "file" => stt.kind = "text" /\ ~AllWhiteSpace(stt.text)
    /\ CallsTo("speak") # {} => CallsTo("chat") # {} /\ completion.kind = "reply"
    /\ (pc # "start" /\ ~data.success) => Failed /\ calls = <<>>
    /\ (stt.kind = "throws" \/ (stt.kind = "text" /\ AllWhiteSpace(stt.text))) =>
         Failed /\ CallsTo("chat") = {} /\ CallsTo("speak") = {}
    /\ completion.kind \in {"rejects", "noChoices"} => Failed /\ CallsTo("speak") = {}
    /\ SynthesisFailed => Failed
    /\ pc # "done" => result.kind = "none"

\* the three collaborators were invoked and the request ended
C8_Witness ==
    /\ pc = "done"
    /\ Len(calls) = 3

\* C9: a response with an audio body exists only once the stream has reported
\* done with no read rejected, and its body is the chunks of the stream
\* concatenated in order; when a read rejects after chunks were read, the
\* response is an error text.
C9_NoPartialAudio ==
    /\ Success =>
         /\ stream.kind = "stream"
         /\ stream.errAt = -1
         /\ pos = Len(stream.data)
         /\ result.body.bytes = Flatten(stream.data)
    /\ (stream.kind = "stream" /\ pc = "done" /\ stream.errAt = pos) =>
         /\ result.kind = "response"
         /\ result.body.type = "text"
         /\ result.body.bytes = <<>>
    /\ pc = "read" => result.kind = "none"

\* a success over a stream of two different chunks
C9_Witness ==
    /\ Success
    /\ Len(stream.data) = 2
    /\ stream.data[1] # stream.data[2]

\* C10: when the completion fails, POST throws: it has built no response, the
\* completion was invoked once and the synthesis never.
C10_CompletionUnhandled ==
    completion.kind \in {"rejects", "noChoices"} =>
        /\ result.kind = "thrown"
        /\ pc = "done"
        /\ Cardinality(CallsTo("chat")) = 1
        /\ CallsTo("speak") = {}

\* the completion rejected
C10_Witness ==
    /\ completion.kind = "rejects"
    /\ pc = "done"

====
